---- MODULE Spec2Model ----
(***************************************************************************)
(* escolas_parana.py: a sequential scraper of a JSF portal.  main() reads  *)
(* a catalogue of (municipality, school) rows, makes the initial request,  *)
(* then for every municipality posts the city selection and, for every     *)
(* matching school option, walks three pages, posts one detail request per *)
(* distinct identifier of the summary grid, joins the tables, and finally  *)
(* writes the concatenation of all joined tables.                          *)
(*                                                                         *)
(* Characters are modelled by their names ("a", "A", "a_acute", "sp", ...) *)
(* and a Python str by a sequence of them.  None and NaN are the strings   *)
(* "None" and "NaN".                                                       *)
(***************************************************************************)
EXTENDS Integers, Sequences, FiniteSets, TLC

VARIABLES
    pc,               \* position of main(): see the actions
    df_excel,         \* the catalogue rows read by extract_cities_schools
    windowid,         \* window identifier returned by initial_request
    viewstate,        \* the viewstate parameter of extract_city_data
    dict_city_codes,  \* normalized city key -> city code
    cityIdx,          \* index in list_cities of the city being processed
    option_tag,       \* the school options of the city being processed
    optIdx,           \* index in option_tag of the option being processed
    sv,               \* the local viewstate of extract_school_data
    ids,              \* df_big['ids'] of the school being processed
    ncols,            \* number of columns of df_big parsed from the grid
    uniqIdx,          \* index in ids.unique() of the next detail request
    list_df,          \* the detail tables collected for the school
    list_df_schools,  \* the joined tables collected by extract_city_data, each
                      \* kept as its municipio, its escola and its row count
    csv,              \* the export file: whether written, and its rows
    navState,         \* history: navigation state of the current school
    navTrace,         \* history: navigation states the current school visited
    navCalls,         \* history: HTTP calls since the last navigation state
    transCalls,       \* history: HTTP calls of the last navigation transition
    navPrev,          \* history: navigation state left behind when the current
                      \* school was entered
    observed,         \* history: token most recently read from a response
    lastReq,          \* history: the most recent request
    detailSent,       \* history: detail identifiers posted for the school
    started,          \* history: indices of the options of the current city
                      \* for which extract_school_data was called
    failure,          \* history: why the run raised, or "none"
    initFailed,       \* history: the initial response was a failing one
    sentAfterInit,    \* history: a request was sent after the initial one
    caps,             \* environment: the most options, grid rows and detail
                      \* rows of one answer of the server (of one argument)
    input,            \* argument of the pure function under check
    output            \* its result

vars == <<pc, df_excel, windowid, viewstate, dict_city_codes, cityIdx,
          option_tag, optIdx, sv, ids, ncols, uniqIdx, list_df,
          list_df_schools, csv, navState, navTrace, navCalls, transCalls,
          navPrev, observed, lastReq, detailSent, started, failure, initFailed,
          sentAfterInit, caps, input, output>>

None == "None"
NaN == "NaN"

\* ------------------------------------------------------------------ bounds
MaxLen == 3

\* All sequences over S of length lo..hi.
SeqsOf(S, lo, hi) == UNION {[1..n -> S] : n \in lo..hi}

\* ------------------------------------------------------------ normalizer
AsciiLower == {"a", "b", "e", "s"}
AsciiUpper == {"A", "B", "E", "S"}
Digits == {"7"}
Whitespace == {"sp", "tab"}
Alphabet == {"a", "A", "b", "7", "a_acute", "A_acute", "a_tilde", "A_tilde",
             "e_acute", "E_acute", "sp", "tab", "dash"}

\* str.lower() on one character.
LowerChar(c) ==
    CASE c = "A" -> "a"
      [] c = "B" -> "b"
      [] c = "E" -> "e"
      [] c = "S" -> "s"
      [] c = "A_acute" -> "a_acute"
      [] c = "A_tilde" -> "a_tilde"
      [] c = "E_acute" -> "e_acute"
      [] OTHER -> c

\* s.replace(old, new) for a one-character old and new.
ReplaceChar(s, old, new) == [i \in DOMAIN s |-> IF s[i] = old THEN new ELSE s[i]]

\* s.replace(old, '') for a one-character old.
RemoveChar(s, old) == SelectSeq(s, LAMBDA c : c # old)

\* re.sub(r'[^a-zA-Z0-9\s]', '', s): keeps ASCII letters, digits and whitespace.
RegexSub(s) ==
    SelectSeq(s, LAMBDA c : c \in AsciiLower \cup AsciiUpper \cup Digits \cup Whitespace)

normalize_string(s) ==
    LET s1 == [i \in DOMAIN s |-> LowerChar(s[i])]
        s2 == RemoveChar(ReplaceChar(ReplaceChar(s1, "a_acute", "a"), "a_tilde", "a"), "sp")
    IN  RegexSub(s2)

\* ------------------------------------------------- table extractor, joiner
\* A table cell is [div |-> whether str(cell) contains '<div',
\*                  id  |-> the first id="..." of str(cell), or None].
\* A table is the sequence of its data rows, a row the sequence of its cells.
NumCols == 7

\* Concatenation of a sequence of sequences.
RECURSIVE Flatten(_)
Flatten(ss) == IF ss = <<>> THEN <<>> ELSE Head(ss) \o Flatten(Tail(ss))

\* The inner loop over row.find_all('td'): one entry per cell without '<div'.
RowIds(row) ==
    LET plain == SelectSeq(row, LAMBDA c : ~c.div)
    IN  [i \in DOMAIN plain |-> plain[i].id]

\* The loop over table.find_all('tr') building the list ids.
ExtractIds(table) == Flatten([r \in DOMAIN table |-> RowIds(table[r])])

\* Number of columns pd.read_html gives the table: its widest row.
TableCols(table) ==
    IF table = <<>> THEN 0
    ELSE CHOOSE n \in {Len(table[r]) : r \in DOMAIN table} :
             \A r \in DOMAIN table : Len(table[r]) <= n

\* The series itself, where unique() was meant.
UniqueKeepAll(s) == s

\* Series.unique(): the distinct values in order of first appearance.
RECURSIVE Unique(_)
Unique(s) ==
    IF s = <<>> THEN <<>>
    ELSE LET u == Unique(SubSeq(s, 1, Len(s) - 1))
             x == s[Len(s)]
         IN  IF \E i \in DOMAIN u : u[i] = x THEN u ELSE Append(u, x)

\* pd.concat(list_df) of the detail tables, each [ids |-> id, Nome |-> names]:
\* one record per detail row, carrying the ids value of its table.
ConcatDetail(dfs) ==
    Flatten([k \in DOMAIN dfs |->
               [j \in DOMAIN dfs[k].Nome |-> [ids |-> dfs[k].ids, Nome |-> dfs[k].Nome[j]]]])

\* df_detail.dropna(subset='Nome')
DropNaNome(df) == SelectSeq(df, LAMBDA d : d.Nome # NaN)

\* The value fillna(0) writes, and fillna(0) on one identifier or name.
Zero == "0"
FillNa(x) == IF x \in {None, NaN} THEN Zero ELSE x

\* The merge of one summary row with how='inner': no row without a match.
MergeRowInner(i, id, detail) ==
    LET m == SelectSeq(detail, LAMBDA d : d.ids = id)
    IN  [j \in DOMAIN m |-> [row |-> i, ids |-> id, matched |-> TRUE, Nome |-> m[j].Nome]]

\* df_big.merge(df_detail, on='ids', how='left') for one summary row: the
\* matching detail records in order (a null key matches a null key), or one
\* row whose detail columns are missing.
MergeRow(i, id, detail) ==
    LET m == SelectSeq(detail, LAMBDA d : d.ids = id)
    IN  IF m = <<>>
        THEN <<[row |-> i, ids |-> id, matched |-> FALSE, Nome |-> NaN]>>
        ELSE [j \in DOMAIN m |-> [row |-> i, ids |-> id, matched |-> TRUE, Nome |-> m[j].Nome]]

\* Lines 351-363: concat, dropna, attach names, left merge, fillna(0).  The
\* municipio and escola columns of a matched row hold city and school, those
\* of an unmatched row are missing and filled with 0.
Join(bigIds, dfs, city, school) ==
    LET detail == DropNaNome(ConcatDetail(dfs))
        merged == Flatten([i \in DOMAIN bigIds |-> MergeRow(i, bigIds[i], detail)])
    IN  [j \in DOMAIN merged |->
            [row |-> merged[j].row,
             ids |-> FillNa(merged[j].ids),
             Nome |-> FillNa(merged[j].Nome),
             municipio |-> IF merged[j].matched THEN city ELSE <<Zero>>,
             escola |-> IF merged[j].matched THEN school ELSE <<Zero>>]]

\* ------------------------------------------------------------ run: inputs
MaxRows == 2
MaxOptions == 2
MaxToken == 2
MaxGridRows == 3

CatalogCities == {<<"A">>, <<"B">>}
CatalogSchools == {<<"E">>, <<"S">>}
ServerCityLabels == {<<"a_tilde">>, <<"b">>}
ServerSchoolLabels == {<<"e">>, <<"S">>}

\* The spreadsheets: rows of the two columns the program reads.
CatalogRows == [mun2 : CatalogCities, Estabelecimento_scrapping : CatalogSchools]
Catalogs == SeqsOf(CatalogRows, 1, MaxRows)

\* The server's code of a city or school: fixed per label.
CodeOf(label) ==
    CASE label = <<"a_tilde">> -> 11
      [] label = <<"b">> -> 12
      [] label = <<"e">> -> 21
      [] OTHER -> 22

\* An <option>: its text and its value attribute (0: no value attribute).
Options(labels) ==
    {[text |-> l, value |-> CodeOf(l)] : l \in labels}
    \cup {[text |-> l, value |-> 0] : l \in labels}
OptionLists(labels) == SeqsOf(Options(labels), 0, caps.options)

\* What the text of the initial page holds of the window identifier: nothing,
\* the word 'windowId' without 'windowId=' after it, or 'windowId=<id>"'.
WindowIdTexts == {"absent", "bare", "assigned"}

\* Responses to the initial GET: status, the window identifier in the text,
\* the city <select> (or none) and its options, the ViewState input (0: absent).
InitialResponses ==
    [status : {200, 500}, windowId : WindowIdTexts, hasSelect : {TRUE},
     options : OptionLists(ServerCityLabels), viewstate : {0, 1}]
    \cup [status : {200, 500}, windowId : WindowIdTexts, hasSelect : {FALSE},
          options : {<<>>}, viewstate : {0, 1}]

\* Responses to the city POST: the first <select> (or none) and its options.
CityResponses ==
    [hasSelect : {TRUE}, options : OptionLists(ServerSchoolLabels)]
    \cup [hasSelect : {FALSE}, options : {<<>>}]

\* The token of the next page the server renders: it rotates.
NextToken(t) == (t % MaxToken) + 1

IdNames == <<"id1", "id2", "id3", "id4", "id5">>
PlainNone == [div |-> FALSE, id |-> None]
Plain(r) == [div |-> FALSE, id |-> IdNames[r]]
DivCell == [div |-> TRUE, id |-> None]

\* n cells holding a <div>.
DivCells(n) == [i \in 1..n |-> DivCell]

\* Row r of a summary grid: cells with a <div>, then the cells without, which
\* carry the row's identifier or none.
RowTails(r) == {<<>>, <<PlainNone>>, <<Plain(r)>>, <<Plain(r), PlainNone>>}
RECURSIVE TailSeqs(_)
TailSeqs(n) ==
    IF n = 0 THEN {<<>>}
    ELSE {Append(p, t) : p \in TailSeqs(n - 1), t \in RowTails(n)}
Tables ==
    UNION {{[r \in 1..n |-> DivCells(k) \o t[r]] : t \in TailSeqs(n)} :
             n \in 0..caps.gridRows, k \in {NumCols - 1, NumCols - 2}}

\* Responses to the supply/demand GET: whether the ViewState input is there,
\* the number of role="grid" tables and the second of them.
SupplyResponses ==
    [viewstate : {TRUE}, grids : {2}, table : Tables]
    \cup [viewstate : {FALSE}, grids : {2}, table : {<<>>}]
    \cup [viewstate : {TRUE}, grids : {1}, table : {<<>>}]

\* Responses to a detail POST: whether it holds a table, and the Nome column.
DetailResponses ==
    [hasTable : {TRUE}, Nome : SeqsOf({"n1", NaN}, 0, caps.detailRows)]
    \cup [hasTable : {FALSE}, Nome : {<<>>}]

\* ------------------------------------------------------- run: the program
\* Lines 48-51: the normalized columns and the unique municipalities.
municipio_normalizada(df) == [i \in DOMAIN df |-> normalize_string(df[i].mun2)]
escola_normalizada(df) == [i \in DOMAIN df |-> normalize_string(df[i].Estabelecimento_scrapping)]
list_cities == Unique(municipio_normalizada(df_excel))

\* Line 116: the requested schools of a city.
school_list(city) ==
    {escola_normalizada(df_excel)[i] : i \in {j \in DOMAIN df_excel :
                                               municipio_normalizada(df_excel)[j] = city}}

\* Line 86 and 184: 'value' in str(option).  No label of the model contains
\* the word, so this is whether the option has a value attribute.
HasValue(o) == o.value # 0

\* Lines 83-87: the dictionary of city codes; a later option overwrites.
CityCodes(options) ==
    LET valued == {i \in DOMAIN options : HasValue(options[i])}
        keys == {normalize_string(options[i].text) : i \in valued}
    IN  [k \in keys |->
            LET last == CHOOSE i \in valued :
                            /\ normalize_string(options[i].text) = k
                            /\ \A j \in valued : normalize_string(options[j].text) = k => j <= i
            IN  [city_code |-> options[last].value]]

\* initial_request without its check of the status.
initial_request_any_status(r) ==
    IF r.windowId = "absent" THEN [raised |-> TRUE]
    ELSE IF r.windowId = "bare" THEN [raised |-> TRUE]
    ELSE IF ~r.hasSelect THEN [raised |-> TRUE]
    ELSE IF r.viewstate = 0 THEN [raised |-> TRUE]
    ELSE [raised |-> FALSE, windowid |-> "w1", viewstate |-> r.viewstate,
          dict_city_codes |-> CityCodes(r.options)]

\* initial_request on a response: raises, or returns windowid, viewstate and
\* the dictionary. Line 74 raises when the text has no 'windowId'; line 75
\* raises (split(...)[1] out of range) when it has the word but no 'windowId='.
initial_request(r) ==
    IF r.status = 200
    THEN IF r.windowId = "absent" THEN [raised |-> TRUE]
         ELSE IF r.windowId = "bare" THEN [raised |-> TRUE]
         ELSE IF ~r.hasSelect THEN [raised |-> TRUE]
         ELSE IF r.viewstate = 0 THEN [raised |-> TRUE]
         ELSE [raised |-> FALSE, windowid |-> "w1", viewstate |-> r.viewstate,
               dict_city_codes |-> CityCodes(r.options)]
    ELSE [raised |-> TRUE]

\* ------------------------------------------------------- run: the actions
histVars == <<observed, lastReq, detailSent, started, initFailed, sentAfterInit>>
navVars == <<navState, navTrace, navCalls, transCalls>>
schoolVars == <<sv, ids, ncols, uniqIdx, list_df>>
constVars == <<df_excel, caps, input, output>>

NoRequest == [kind |-> "none", token |-> 0, expected |-> 0]

\* The request the program sends: its kind, the view-state token in its form
\* data (0: none) and, for the record, the token most recently read so far.
Request(kind, token) == [kind |-> kind, token |-> token, expected |-> observed]

\* The state when main() starts: nothing requested, read or collected.
Blank ==
    /\ windowid = None
    /\ viewstate = 0
    /\ dict_city_codes = <<>>
    /\ cityIdx = 0
    /\ option_tag = <<>>
    /\ optIdx = 0
    /\ sv = 0
    /\ ids = <<>>
    /\ ncols = 0
    /\ uniqIdx = 0
    /\ list_df = <<>>
    /\ list_df_schools = <<>>
    /\ csv = [written |-> FALSE, tables |-> <<>>]
    /\ navState = "Idle"
    /\ navTrace = <<>>
    /\ navCalls = 0
    /\ transCalls = 0
    /\ navPrev = "Idle"
    /\ observed = 0
    /\ lastReq = NoRequest
    /\ detailSent = <<>>
    /\ started = <<>>
    /\ failure = "none"
    /\ initFailed = FALSE
    /\ sentAfterInit = FALSE

InitWith(catalogs, server) ==
    /\ pc = "main"
    /\ df_excel \in catalogs
    /\ caps = server
    /\ input = <<>>
    /\ output = <<>>
    /\ Blank

\* An uncaught exception: the interpreter unwinds every frame and exits.
Raise(cause) ==
    /\ pc' = "crashed"
    /\ failure' = cause
    /\ option_tag' = <<>>
    /\ optIdx' = 0
    /\ sv' = 0
    /\ ids' = <<>>
    /\ ncols' = 0
    /\ uniqIdx' = 0
    /\ list_df' = <<>>

\* The navigation of the current school enters a state after `calls` calls.
NavTo(state, calls) ==
    /\ navState' = state
    /\ navTrace' = Append(navTrace, state)
    /\ transCalls' = calls
    /\ navCalls' = 0

\* Lines 371 and 56-94: the initial GET.
InitialRequest ==
    /\ pc = "main"
    /\ \E r \in InitialResponses :
         LET out == initial_request(r)
         IN  /\ lastReq' = Request("initial", 0)
             /\ initFailed' = (r.status # 200 \/ r.windowId # "assigned" \/ r.viewstate = 0)
             /\ IF out.raised
                THEN /\ Raise("initial")
                     /\ UNCHANGED <<windowid, viewstate, dict_city_codes, cityIdx, observed>>
                ELSE /\ windowid' = out.windowid
                     /\ viewstate' = out.viewstate
                     /\ dict_city_codes' = out.dict_city_codes
                     /\ observed' = out.viewstate
                     /\ cityIdx' = 1
                     /\ pc' = "city"
                     /\ UNCHANGED <<option_tag, optIdx, schoolVars, failure>>
    /\ UNCHANGED <<constVars, navPrev, list_df_schools, csv, navVars, detailSent, started,
                   sentAfterInit>>

\* Lines 115-180: one iteration of the loop over list_cities up to the
\* option loop: the code lookup, the city POST and the <select> of its answer.
CityRequest ==
    /\ pc = "city"
    /\ cityIdx <= Len(list_cities)
    /\ LET city == list_cities[cityIdx]
       IN  IF city \notin DOMAIN dict_city_codes
           THEN /\ Raise("city_lookup")
                /\ UNCHANGED <<cityIdx, lastReq, sentAfterInit, started>>
           ELSE \E r \in CityResponses :
                  /\ lastReq' = Request("city", viewstate)
                  /\ sentAfterInit' = TRUE
                  /\ started' = <<>>
                  /\ IF ~r.hasSelect \/ Len(r.options) = 0
                     THEN /\ cityIdx' = cityIdx + 1
                          /\ UNCHANGED <<pc, option_tag, optIdx>>
                     ELSE /\ option_tag' = r.options
                          /\ optIdx' = 1
                          /\ pc' = "option"
                          /\ UNCHANGED cityIdx
                  /\ UNCHANGED <<schoolVars, failure>>
    /\ UNCHANGED <<constVars, navPrev, windowid, viewstate, dict_city_codes, list_df_schools, csv,
                   navVars, observed, detailSent, initFailed>>

\* Lines 184-185: the option is one of the requested schools of the city.
Requested(o, city) ==
    /\ HasValue(o)
    /\ normalize_string(o.text) \in school_list(city)

\* The option loop moves to its next option, or the city loop to its next city.
NextOption ==
    IF optIdx < Len(option_tag)
    THEN /\ optIdx' = optIdx + 1
         /\ pc' = "option"
         /\ UNCHANGED <<cityIdx, option_tag>>
    ELSE /\ cityIdx' = cityIdx + 1
         /\ option_tag' = <<>>
         /\ optIdx' = 0
         /\ pc' = "city"

\* Lines 183-185: an option that is not extracted.
OptionSkip ==
    /\ pc = "option"
    /\ ~Requested(option_tag[optIdx], list_cities[cityIdx])
    /\ NextOption
    /\ UNCHANGED <<constVars, navPrev, windowid, viewstate, dict_city_codes, schoolVars,
                   list_df_schools, csv, navVars, histVars, failure>>

\* Lines 186 and 193: extract_school_data is called for the option.
SchoolEnter ==
    /\ pc = "option"
    /\ Requested(option_tag[optIdx], list_cities[cityIdx])
    /\ pc' = "school_get"
    /\ navState' = "Start"
    /\ navTrace' = <<"Start">>
    /\ navCalls' = 0
    /\ transCalls' = 0
    /\ detailSent' = <<>>
    /\ started' = Append(started, optIdx)
    /\ navPrev' = navState
    /\ UNCHANGED <<constVars, windowid, viewstate, dict_city_codes, cityIdx, option_tag,
                   optIdx, schoolVars, list_df_schools, csv, observed, lastReq,
                   initFailed, sentAfterInit, failure>>

\* A GET whose answer is searched for the ViewState input: lines 195-200 and
\* 241-247.
PageGet(at, kind, state, next) ==
    /\ pc = at
    /\ lastReq' = Request(kind, 0)
    /\ sentAfterInit' = TRUE
    /\ \E present \in BOOLEAN :
         IF ~present
         THEN /\ Raise("viewstate")
              /\ NavTo("Failed", navCalls + 1)
              /\ UNCHANGED observed
         ELSE /\ sv' = NextToken(observed)
              /\ observed' = NextToken(observed)
              /\ NavTo(state, navCalls + 1)
              /\ pc' = next
              /\ UNCHANGED <<option_tag, optIdx, ids, ncols, uniqIdx, list_df, failure>>
    /\ UNCHANGED <<constVars, navPrev, windowid, viewstate, dict_city_codes, cityIdx,
                   list_df_schools, csv, detailSent, started, initFailed>>

\* A navigation POST carrying the local viewstate: lines 203-238, 250-270.
PagePost(at, kind, next) ==
    /\ pc = at
    /\ lastReq' = Request(kind, sv)
    /\ sentAfterInit' = TRUE
    /\ navCalls' = navCalls + 1
    /\ pc' = next
    /\ UNCHANGED <<constVars, navPrev, windowid, viewstate, dict_city_codes, cityIdx, option_tag,
                   optIdx, schoolVars, list_df_schools, csv, navState, navTrace,
                   transCalls, observed, detailSent, started, initFailed, failure>>

SchoolGet == PageGet("school_get", "school_get", "CityAndSchoolSelected", "prof_post")
ProfPost == PagePost("prof_post", "prof_post", "prof_get")
ProfGet == PageGet("prof_get", "prof_get", "ProfessionalsPageReached", "supply_post")
SupplyPost == PagePost("supply_post", "supply_post", "supply_get")

\* Lines 273-294: the supply/demand GET, its ViewState input, its second grid
\* table, the identifier list and df_big with its ids column.
SupplyGet ==
    /\ pc = "supply_get"
    /\ lastReq' = Request("supply_get", 0)
    /\ sentAfterInit' = TRUE
    /\ \E r \in SupplyResponses :
         IF ~r.viewstate
         THEN /\ Raise("viewstate")
              /\ NavTo("Failed", navCalls + 1)
              /\ UNCHANGED observed
         ELSE /\ observed' = NextToken(observed)
              /\ IF r.grids < 2
                 THEN /\ Raise("grid")
                      /\ NavTo("Failed", navCalls + 1)
                 ELSE IF Len(r.table) = 0
                 THEN /\ Raise("empty_table")
                      /\ NavTo("Failed", navCalls + 1)
                 ELSE IF Len(ExtractIds(r.table)) # Len(r.table)
                 THEN /\ Raise("ids_length")
                      /\ NavTo("Failed", navCalls + 1)
                 ELSE /\ sv' = NextToken(observed)
                      /\ ids' = ExtractIds(r.table)
                      /\ ncols' = TableCols(r.table)
                      /\ uniqIdx' = 1
                      /\ list_df' = <<>>
                      /\ NavTo("SupplyDemandPageReached", navCalls + 1)
                      /\ pc' = "detail"
                      /\ UNCHANGED <<option_tag, optIdx, failure>>
    /\ UNCHANGED <<constVars, navPrev, windowid, viewstate, dict_city_codes, cityIdx,
                   list_df_schools, csv, detailSent, started, initFailed>>

\* Lines 299-348: one iteration of the loop over df_big['ids'].unique().
DetailPost ==
    /\ pc = "detail"
    /\ LET id == Unique(ids)[uniqIdx]
       IN  /\ lastReq' = Request("detail", sv)
           /\ detailSent' = Append(detailSent, id)
           /\ navCalls' = navCalls + 1
           /\ \E r \in DetailResponses :
                IF ~r.hasTable
                THEN /\ Raise("detail_table")
                     /\ navState' = "Failed"
                     /\ navTrace' = Append(navTrace, "Failed")
                     /\ UNCHANGED transCalls
                ELSE /\ list_df' = Append(list_df, [ids |-> id, Nome |-> r.Nome])
                     /\ uniqIdx' = uniqIdx + 1
                     /\ pc' = IF uniqIdx < Len(Unique(ids)) THEN "detail" ELSE "join"
                     /\ UNCHANGED <<option_tag, optIdx, sv, ids, ncols, failure,
                                    navState, navTrace, transCalls>>
    /\ UNCHANGED <<constVars, navPrev, windowid, viewstate, dict_city_codes, cityIdx,
                   list_df_schools, csv, observed, started, initFailed, sentAfterInit>>

\* Lines 351-363 and 187: the join of the school's tables, appended to the
\* list of the run; the option loop goes on.
JoinTables ==
    /\ pc = "join"
    /\ IF ncols # NumCols
       THEN /\ Raise("columns")
            /\ NavTo("Failed", navCalls)
            /\ UNCHANGED <<cityIdx, list_df_schools>>
       ELSE /\ list_df_schools' =
                  Append(list_df_schools,
                         [municipio |-> list_cities[cityIdx],
                          escola |-> option_tag[optIdx].text,
                          rows |-> Len(Join(ids, list_df, list_cities[cityIdx],
                                            option_tag[optIdx].text))])
            /\ NavTo("Done", navCalls)
            /\ NextOption
            /\ sv' = 0
            /\ ids' = <<>>
            /\ ncols' = 0
            /\ uniqIdx' = 0
            /\ list_df' = <<>>
            /\ UNCHANGED failure
    /\ UNCHANGED <<constVars, navPrev, windowid, viewstate, dict_city_codes, csv, histVars>>

\* Lines 189 and 374-375: the city loop is over; concat and to_csv.
Export ==
    /\ pc = "city"
    /\ cityIdx > Len(list_cities)
    /\ IF list_df_schools = <<>>
       THEN /\ Raise("concat_empty")
            /\ UNCHANGED csv
       ELSE /\ csv' = [written |-> TRUE, tables |-> list_df_schools]
            /\ pc' = "done"
            /\ UNCHANGED <<option_tag, optIdx, schoolVars, failure>>
    /\ UNCHANGED <<constVars, navPrev, windowid, viewstate, dict_city_codes, cityIdx,
                   list_df_schools, navVars, histVars>>

Next ==
    \/ InitialRequest
    \/ CityRequest
    \/ OptionSkip
    \/ SchoolEnter
    \/ SchoolGet
    \/ ProfPost
    \/ ProfGet
    \/ SupplyPost
    \/ SupplyGet
    \/ DetailPost
    \/ JoinTables
    \/ Export

\* Any spreadsheet, against a server of one-row grids and one-row details.
Init == InitWith(Catalogs, [options |-> MaxOptions, gridRows |-> 1, detailRows |-> 1])
Spec == Init /\ [][Next]_vars

\* A spreadsheet of one row, against a server of two options and larger tables.
InitSchool ==
    InitWith(SeqsOf(CatalogRows, 1, 1),
             [options |-> 2, gridRows |-> MaxGridRows, detailRows |-> 1])
SpecSchool == InitSchool /\ [][Next]_vars

\* ------------------------------------------------- the functions on their own
MaxCells == 2
MaxJoinDetail == 2

NoCaps == [options |-> 0, gridRows |-> 0, detailRows |-> 0]
runVars == <<df_excel, caps, windowid, viewstate, dict_city_codes, cityIdx, option_tag,
             optIdx, sv, ids, ncols, uniqIdx, list_df, list_df_schools, csv, navState,
             navTrace, navCalls, transCalls, navPrev, observed, lastReq, detailSent,
             started, failure, initFailed, sentAfterInit>>

\* The state before a function is applied to one argument.
InitFn(at) ==
    /\ pc = at
    /\ output = <<>>
    /\ df_excel = <<>>
    /\ Blank

\* normalize_string applied to any string over Alphabet.
InitNorm ==
    /\ InitFn("normalize")
    /\ caps = NoCaps
    /\ input \in SeqsOf(Alphabet, 0, MaxLen)
Normalize ==
    /\ pc = "normalize"
    /\ output' = normalize_string(input)
    /\ pc' = "normalized"
    /\ UNCHANGED <<input, runVars>>
SpecNorm == InitNorm /\ [][Normalize]_vars

\* Lines 284-291 applied to any grid: rows of cells with or without a <div>,
\* with or without an id.
GridCells == {DivCell, [div |-> TRUE, id |-> "id1"], PlainNone, Plain(1), Plain(2)}
Grids == SeqsOf(SeqsOf(GridCells, 1, MaxCells), 0, caps.gridRows)
InitIds ==
    /\ InitFn("extract_ids")
    /\ caps = [options |-> 0, gridRows |-> MaxGridRows, detailRows |-> 0]
    /\ input \in Grids
ExtractIdsStep ==
    /\ pc = "extract_ids"
    /\ output' = ExtractIds(input)
    /\ pc' = "extracted_ids"
    /\ UNCHANGED <<input, runVars>>
SpecIds == InitIds /\ [][ExtractIdsStep]_vars

\* Lines 351-363 applied to any summary identifiers and the detail tables the
\* loop of lines 299-348 collects for them: one per distinct identifier.
DetailTables(bigIds) ==
    LET u == Unique(bigIds)
    IN  {[k \in DOMAIN u |-> [ids |-> u[k], Nome |-> f[k]]] :
           f \in [DOMAIN u -> SeqsOf({"n1", NaN}, 0, caps.detailRows)]}
InitJoin ==
    /\ InitFn("join_tables")
    /\ caps = [options |-> 0, gridRows |-> MaxGridRows, detailRows |-> MaxJoinDetail]
    /\ \E b \in SeqsOf({None, "id1", "id2"}, 1, caps.gridRows) :
         \E d \in DetailTables(b) : input = [ids |-> b, dfs |-> d]
JoinStep ==
    /\ pc = "join_tables"
    /\ output' = Join(input.ids, input.dfs, <<"a">>, <<"e">>)
    /\ pc' = "joined"
    /\ UNCHANGED <<input, runVars>>
SpecJoin == InitJoin /\ [][JoinStep]_vars

\* ------------------------------------------------------------- the claims
Terminated == pc \in {"done", "crashed"}
InSchool == pc \in {"school_get", "prof_post", "prof_get", "supply_post", "supply_get",
                    "detail", "join"}

\* C1: every request that carries a view-state token sends the token most
\* recently read from a response of the run, across cities and schools.
TokenThreading == lastReq.token # 0 => lastReq.token = lastReq.expected

\* C2: when a school's navigation fails on a missing element (view-state
\* input, grid table, detail table) the run goes on: it ends with every city
\* processed and the export written with the tables collected.
SchoolFailureConfined ==
    (navState = "Failed" /\ Terminated)
        => /\ pc = "done"
           /\ cityIdx > Len(list_cities)
           /\ csv.written
           /\ csv.tables = list_df_schools

\* C3: a requested municipality that is not in the City Code Map is skipped:
\* the run does not abort on it.
MissingCitySkipped ==
    (/\ windowid # None
     /\ cityIdx \in 1..Len(list_cities)
     /\ list_cities[cityIdx] \notin DOMAIN dict_city_codes)
        => pc # "crashed"

\* The identifiers of the summary set, and those that are not null.
IdSet == {ids[i] : i \in DOMAIN ids}
SentSet == {detailSent[i] : i \in DOMAIN detailSent}

\* C5: one detail request for each distinct non-null identifier of the
\* school's summary set, none for a null identifier or an identifier that is
\* not in the set.
DetailRequestsExact ==
    /\ None \notin SentSet
    /\ pc \in {"detail", "join"} => SentSet \subseteq IdSet
    /\ \A i, j \in DOMAIN detailSent : detailSent[i] = detailSent[j] => i = j
    /\ pc = "join" => SentSet = IdSet \ {None}

\* The identifier of a row: the id of its first cell that has no <div> and
\* has an id, or null.
RowIdentifier(row) ==
    LET c == SelectSeq(row, LAMBDA x : ~x.div /\ x.id # None)
    IN  IF c = <<>> THEN None ELSE c[1].id

\* C6: identifier extraction gives one entry per row of the grid, in row
\* order: the row's identifier or null, whatever the cells of the row.
OneIdPerRow ==
    pc = "extracted_ids"
        => /\ Len(output) = Len(input)
           /\ \A r \in 1..Len(input) : output[r] = RowIdentifier(input[r])

\* The reference normalizer: lowercase, accented vowels folded, whitespace
\* and everything outside [a-z0-9] removed.
RefFold(c) ==
    CASE c \in {"a_acute", "a_tilde"} -> "a"
      [] c = "e_acute" -> "e"
      [] OTHER -> c
RefNormalize(s) ==
    SelectSeq([i \in DOMAIN s |-> RefFold(LowerChar(s[i]))],
              LAMBDA c : c \in AsciiLower \cup Digits)

\* C8: normalize_string equals the reference normalizer, and its result holds
\* only characters of [a-z0-9].
NormalizeMatchesReference ==
    pc = "normalized"
        => /\ output = RefNormalize(input)
           /\ \A i \in DOMAIN output : output[i] \in AsciiLower \cup Digits

\* C9: when the initial request fails (status not 200, no window identifier,
\* no view-state element) the run ends in an error, no request is sent after
\* it and no export is written.
InitialFailureIsFatal ==
    initFailed => /\ pc = "crashed"
                  /\ ~sentAfterInit
                  /\ ~csv.written
InitialFailureWitness ==
    /\ initFailed
    /\ pc = "crashed"
    /\ lastReq.kind = "initial"

\* The requested schools of a city, read from the spreadsheet.
ReqKeys(city) ==
    {normalize_string(df_excel[j].Estabelecimento_scrapping) :
       j \in {k \in DOMAIN df_excel : normalize_string(df_excel[k].mun2) = city}}
IsReq(i) ==
    /\ option_tag[i].value # 0
    /\ normalize_string(option_tag[i].text) \in ReqKeys(list_cities[cityIdx])
\* The options the loop is done with, and those of them it had to extract.
Processed == IF pc = "option" THEN optIdx - 1 ELSE optIdx
ExpectedStarted(n) == SelectSeq([i \in 1..n |-> i], IsReq)
CityTables(tables) ==
    Cardinality({j \in DOMAIN tables : tables[j].municipio = list_cities[cityIdx]})

\* The collected tables of the current city whose school label has key k.
TablesOf(tables, k) ==
    Cardinality({j \in DOMAIN tables :
                   /\ tables[j].municipio = list_cities[cityIdx]
                   /\ normalize_string(tables[j].escola) = k})

\* C10: in the option loop of a city, extraction has started only for options
\* whose normalized label is in the requested list of that city (exactly the
\* options done so far that are in the list and carry a code, once each and in
\* order, with one collected table per finished extraction); an option outside
\* the list sends no request and adds no table; and when the work on the
\* city's options is over, every requested school that appears once among the
\* options has been extracted exactly once: the city has one table for it.
OnlyRequestedStarted ==
    (pc = "option" \/ InSchool)
        => /\ started = ExpectedStarted(Processed)
           /\ CityTables(list_df_schools) = Len(started) - (IF InSchool THEN 1 ELSE 0)
SkipIsSilent ==
    (pc = "option" /\ ~IsReq(optIdx))
        => /\ lastReq' = lastReq
           /\ list_df_schools' = list_df_schools
           /\ started' = started
EveryRequestedExtracted ==
    ((pc = "option" \/ InSchool) /\ pc' \in {"city", "crashed"})
        => \A k \in ReqKeys(list_cities[cityIdx]) :
             Cardinality({i \in DOMAIN option_tag :
                            normalize_string(option_tag[i].text) = k}) = 1
                 => TablesOf(list_df_schools', k) = 1
SchoolSelection ==
    /\ []OnlyRequestedStarted
    /\ [][SkipIsSilent /\ EveryRequestedExtracted]_vars

NavPath == <<"Start", "CityAndSchoolSelected", "ProfessionalsPageReached",
             "SupplyDemandPageReached", "Done">>
IsPrefix(a, b) == Len(a) <= Len(b) /\ \A i \in DOMAIN a : a[i] = b[i]
\* The states visited by the school in navigation are a prefix of the path,
\* or a proper prefix of it and then Failed; the school before it had ended.
NavOrdered ==
    /\ navTrace # <<>> => navState = navTrace[Len(navTrace)]
    /\ \/ IsPrefix(navTrace, NavPath)
       \/ /\ navTrace[Len(navTrace)] = "Failed"
          /\ Len(navTrace) <= Len(NavPath)
          /\ IsPrefix(SubSeq(navTrace, 1, Len(navTrace) - 1), NavPath)
    /\ navPrev \in {"Idle", "Done"}

\* C4 as claimed: the path is followed in order, one school at a time, and
\* every transition of it issues one or two HTTP calls.
NavOneOrTwoCalls ==
    /\ NavOrdered
    /\ navState \in {"CityAndSchoolSelected", "ProfessionalsPageReached",
                     "SupplyDemandPageReached", "Done"} => transCalls \in {1, 2}

\* C4 as amended: the path is followed in order, one school at a time; the
\* transitions to CityAndSchoolSelected, ProfessionalsPageReached and
\* SupplyDemandPageReached issue one, two and two HTTP calls, and the one to
\* Done issues one detail request per distinct identifier entry of the summary
\* set, the null entry included: at least one, and possibly more than two.
NavCallsPerTransition ==
    /\ NavOrdered
    /\ navState = "CityAndSchoolSelected" => transCalls = 1
    /\ navState = "ProfessionalsPageReached" => transCalls = 2
    /\ navState = "SupplyDemandPageReached" => transCalls = 2
    /\ pc = "join" => /\ navCalls = Cardinality(IdSet)
                      /\ Len(detailSent) = navCalls
                      /\ SentSet = IdSet
    /\ navState = "Done" => transCalls = Len(detailSent) /\ transCalls >= 1
NavManyCallsWitness == navState = "Done" /\ transCalls = 3

\* The detail records that reach the merge, and how many match a summary row.
JoinDetail == DropNaNome(ConcatDetail(input.dfs))
Matches(i) == Cardinality({j \in DOMAIN JoinDetail : JoinDetail[j].ids = input.ids[i]})
AllMatched == \A i \in DOMAIN input.ids : Matches(i) >= 1
NoneMatched == \A i \in DOMAIN input.ids : Matches(i) = 0
DistinctIds == \A i, j \in DOMAIN input.ids : input.ids[i] = input.ids[j] => i = j
ZeroFilled == \A j \in DOMAIN output :
                  output[j].Nome = Zero /\ output[j].municipio = <<Zero>>
                                        /\ output[j].escola = <<Zero>>
NoRowDropped == \A i \in DOMAIN input.ids : \E j \in DOMAIN output : output[j].row = i
RECURSIVE RowsExpected(_)
RowsExpected(n) ==
    IF n = 0 THEN 0
    ELSE RowsExpected(n - 1) + (IF Matches(n) = 0 THEN 1 ELSE Matches(n))

\* C7 as claimed: K rows when every summary identifier is matched, M rows of
\* zero-filled detail columns when none is, and no summary row dropped.
JoinCardinality ==
    pc = "joined"
        => /\ AllMatched => Len(output) = Len(JoinDetail)
           /\ NoneMatched => Len(output) = Len(input.ids) /\ ZeroFilled
           /\ NoRowDropped

\* C7 as amended: the join has, for each summary row, one row per detail
\* record of its identifier (null matching null) or one zero-filled row when
\* there is none; that is K rows when the summary identifiers are pairwise
\* distinct and all matched, M zero-filled rows when none is matched; no
\* summary row is dropped.
JoinCardinalityDistinct ==
    pc = "joined"
        => /\ Len(output) = RowsExpected(Len(input.ids))
           /\ (DistinctIds /\ AllMatched) => Len(output) = Len(JoinDetail)
           /\ NoneMatched => Len(output) = Len(input.ids) /\ ZeroFilled
           /\ NoRowDropped
JoinOneToManyWitness ==
    /\ pc = "joined"
    /\ DistinctIds
    /\ AllMatched
    /\ Len(input.ids) = 2
    /\ Len(JoinDetail) = 3
    /\ Len(output) = 3

====
